---------------------------- MODULE Spec2Model ----------------------------
(***************************************************************************)
(* Evidence Retrieval Engine of the Healthcare Compliance Assistant        *)
(* (src/lib/policySearch.ts, the revision with the evidence cache, lines   *)
(* 532-951): category routing, page-chunked document matching with the     *)
(* process-wide cache, batched corpus scanning and the per-submission      *)
(* batch coordinator.                                                      *)
(*                                                                         *)
(* JavaScript runs one callback at a time: everything between two awaits   *)
(* is one atomic step.  Each action below is one such step: the arrival of *)
(* one outbound call's response together with every continuation that the  *)
(* response makes runnable before the next outbound call is awaited.       *)
(*                                                                         *)
(* Scales: confidences are in tenths (0.6 is 6); a text is a sequence of   *)
(* segments with a character count each.                                   *)
(***************************************************************************)
EXTENDS Integers, Sequences, FiniteSets, TLC

\* ------------------------------------------------------------------ bounds
\* Segments (markers and runs of text) of a content given to the segmenter.
MaxSegments == 4
\* Calls of searchPoliciesForQuestions the process serves, one after another.
MaxRuns == 2
\* Questions extracted from the chunks of one uploaded document.
MaxExtracted == 3

\* ------------------------------------------------------- program constants
\* const CACHE_TTL = 1000 * 60 * 60 (milliseconds)
CACHE_TTL == 3600000
\* result.confidence > 0.6, in tenths
CONFIDENCE_THRESHOLD == 6
\* policy.content.length < 100
MIN_CONTENT_LENGTH == 100
\* question.substring(0, 100)
KEY_PREFIX_LENGTH == 100
\* const batchSize = 25, scaled to 2 so that a candidate list of the whole
\* corpus spans several batches
batchSize == 2

\* -------------------------------------------------------------- option type
None == <<>>
Some(x) == <<x>>
IsSome(o) == o # <<>>
Get(o) == o[1]

Min(a, b) == IF a < b THEN a ELSE b

RECURSIVE SumLen(_)
SumLen(segs) == IF segs = <<>> THEN 0 ELSE Head(segs).len + SumLen(Tail(segs))

\* ---------------------------------------------------------------- text
\* A character of a question text; a text is a sequence of characters.
toLowerCase(s) ==
    [i \in 1..Len(s) |->
        CASE s[i] = "A" -> "a"
          [] s[i] = "B" -> "b"
          [] s[i] = "Q" -> "q"
          [] OTHER -> s[i]]

RECURSIVE trimLeft(_)
trimLeft(s) == IF s # <<>> /\ Head(s) = " " THEN trimLeft(Tail(s)) ELSE s

RECURSIVE trimRight(_)
trimRight(s) ==
    IF s # <<>> /\ s[Len(s)] = " " THEN trimRight(SubSeq(s, 1, Len(s) - 1)) ELSE s

trim(s) == trimRight(trimLeft(s))

substring(s, from, to) == SubSeq(s, from + 1, Min(to, Len(s)))

\* Faulty variant of getCacheKey: the letter case is kept.
getCacheKeyKeepsCase(question, policyId) ==
    <<trim(substring(question, 0, KEY_PREFIX_LENGTH)), policyId>>

\* Faulty variant of getCacheKey: the key is the document id alone.
getCacheKeyByDocument(question, policyId) == <<<<>>, policyId>>

\* getCacheKey: `${question.substring(0, 100).toLowerCase().trim()}:${policyId}`
getCacheKey(question, policyId) ==
    <<trim(toLowerCase(substring(question, 0, KEY_PREFIX_LENGTH))), policyId>>

\* ------------------------------------------------------------- categories
\* Object.keys(CATEGORY_DESCRIPTIONS)
CATEGORY_DESCRIPTIONS == {"AA", "CMC", "DD", "EE", "FF", "GA", "GG", "HH", "MA", "PA"}

\* return ['GG', 'HH', 'MA'] // Fallback
FallbackCategories == <<"GG", "HH", "MA">>

\* ------------------------------------------------------------ Corpus Store
\* A document's content is a sequence of segments: a "Page X of Y" marker
\* (label "X of Y") or a run of other text, each with its character count.
Marker(label) == [marker |-> TRUE, label |-> label, len |-> 11]
Text(n) == [marker |-> FALSE, label |-> "", len |-> n]

\* The rows of table policy_documents, in the order the query asks for:
\* .order('policy_category').order('policy_number').
Corpus ==
    << [id |-> "d1", policy_number |-> "GG.1", policy_name |-> "n1",
        policy_category |-> "GG",
        content |-> <<Marker("1 of 2"), Text(200), Marker("2 of 2"), Text(200)>>],
       [id |-> "d2", policy_number |-> "GG.2", policy_name |-> "n2",
        policy_category |-> "GG",
        content |-> <<Text(300)>>],
       [id |-> "d3", policy_number |-> "HH.1", policy_name |-> "n3",
        policy_category |-> "HH",
        content |-> <<Text(40), Marker("1 of 1"), Text(150)>>],
       [id |-> "d4", policy_number |-> "MA.1", policy_name |-> "n4",
        policy_category |-> "MA",
        content |-> <<Text(50)>>],
       [id |-> "d5", policy_number |-> "MA.2", policy_name |-> "n5",
        policy_category |-> "MA",
        content |-> <<>>] >>

contentLength(content) == SumLen(content)

\* The indices i >= from at which the sequence of booleans keep is TRUE, in order.
RECURSIVE SelectIdx(_, _)
SelectIdx(keep, from) ==
    IF from > Len(keep) THEN <<>>
    ELSE (IF keep[from] THEN <<from>> ELSE <<>>) \o SelectIdx(keep, from + 1)

InSeq(x, seq) == \E k \in 1..Len(seq) : seq[k] = x

\* getAllPolicyDocuments(undefined, categories): the rows whose category is
\* one of the selected ones, as indices into Corpus; [] when the read fails.
getAllPolicyDocuments(categories, readOk) ==
    IF ~readOk THEN <<>>
    ELSE SelectIdx([i \in 1..Len(Corpus) |->
                        categories = <<>> \/ InSeq(Corpus[i].policy_category, categories)], 1)

\* ----------------------------------------------------------- Page Segmenter
\* Faulty variant of parsePolicyIntoPages: every chunk runs to the end of
\* the content.
parsePolicyIntoPagesToEnd(content) ==
    LET matches == SelectIdx([i \in 1..Len(content) |-> content[i].marker], 1)
    IN IF Len(matches) = 0
       THEN << [pageNumber |-> "1", content |-> content, startIndex |-> 0] >>
       ELSE [k \in 1..Len(matches) |->
                [pageNumber |-> content[matches[k]].label,
                 content |-> SubSeq(content, matches[k], Len(content)),
                 startIndex |-> SumLen(SubSeq(content, 1, matches[k] - 1))]]

\* parsePolicyIntoPages: one chunk per marker, from the marker up to the
\* next marker or the end; the whole content as page '1' without markers.
parsePolicyIntoPages(content) ==
    LET matches == SelectIdx([i \in 1..Len(content) |-> content[i].marker], 1)
    IN IF Len(matches) = 0
       THEN << [pageNumber |-> "1", content |-> content, startIndex |-> 0] >>
       ELSE [k \in 1..Len(matches) |->
                LET first == matches[k]
                    last == IF k < Len(matches) THEN matches[k + 1] - 1 ELSE Len(content)
                IN [pageNumber |-> content[first].label,
                    content |-> SubSeq(content, first, last),
                    startIndex |-> SumLen(SubSeq(content, 1, first - 1))]]

\* The contents the segmenter is tried on: up to MaxSegments segments, each
\* one of two markers or a run of seven characters.
Segments == {Marker("1 of 2"), Marker("2 of 2"), Text(7)}
Contents == UNION {[1..n -> Segments] : n \in 0..MaxSegments}

\* ------------------------------------------------------- Inference Service
\* What one chat completion can come back as: the call rejects, there is no
\* message content, the content is not JSON, or it is JSON.
\* Category Router: the JSON value of a completion.
RouterJson(isArray, tags) == [kind |-> "json", isArray |-> isArray, tags |-> tags]
RouterResponses ==
    { [kind |-> "throw", isArray |-> FALSE, tags |-> <<>>],
      [kind |-> "nocontent", isArray |-> FALSE, tags |-> <<>>],
      [kind |-> "malformed", isArray |-> FALSE, tags |-> <<>>],
      RouterJson(FALSE, <<>>),
      RouterJson(TRUE, <<>>),
      RouterJson(TRUE, <<"HH", "MA">>),
      RouterJson(TRUE, <<"MA">>),
      RouterJson(TRUE, <<"PA">>),
      RouterJson(TRUE, <<"ZZ">>) }

\* Document Matcher: the JSON object of a completion.  A missing confidence
\* is 0 and a missing excerpt is "" (both falsy, as undefined is).  The
\* excerpt "quote" stands for a passage of at most 250 characters copied
\* from the page that was submitted.
MatchJson(found, confidence, excerpt) ==
    [kind |-> "json", found |-> found, confidence |-> confidence, excerpt |-> excerpt]
MatcherResponses ==
    { [kind |-> "throw", found |-> FALSE, confidence |-> 0, excerpt |-> ""],
      [kind |-> "nocontent", found |-> FALSE, confidence |-> 0, excerpt |-> ""],
      [kind |-> "malformed", found |-> FALSE, confidence |-> 0, excerpt |-> ""],
      MatchJson(TRUE, 9, "quote"),
      MatchJson(TRUE, 9, ""),
      MatchJson(TRUE, 6, "quote"),
      MatchJson(FALSE, 9, ""),
      MatchJson(FALSE, 0, "") }

\* Faulty variant of selectRelevantCategories: whatever parses is returned.
selectRelevantCategoriesUnchecked(resp) ==
    IF resp.kind = "json" THEN resp.tags ELSE FallbackCategories

\* selectRelevantCategories: the parsed array when it is one and non-empty,
\* the fallback on every other outcome of the call.
selectRelevantCategories(resp) ==
    IF resp.kind = "json" /\ resp.isArray /\ Len(resp.tags) > 0
    THEN resp.tags
    ELSE FallbackCategories

\* ------------------------------------------------------------- submissions
Question(number, text) == [number |-> number, text |-> text]

\* Three question texts; the first two differ in case and outer blanks only.
TextA == <<"Q", "a">>
TextA2 == <<" ", "q", "A", " ">>
TextB == <<"Q", "b">>

\* The calls searchPoliciesForQuestions(questions, maxQuestionsToProcess)
\* a caller makes one after another: the first of two questions is searched.
Submissions ==
    { [questions |-> <<Question(1, TextA), Question(2, TextB)>>, limit |-> 1] }

\* The calls of the concurrent specification: two questions searched at
\* once, with different cache keys and with the same cache key; a limit
\* below and a limit above the number of questions.
BatchSubmissions ==
    { [questions |-> <<Question(1, TextA), Question(2, TextB)>>, limit |-> 2],
      [questions |-> <<Question(3, TextA2), Question(7, TextA)>>, limit |-> 2],
      [questions |-> <<Question(4, TextB), Question(5, TextA)>>, limit |-> 1],
      [questions |-> <<Question(6, TextB)>>, limit |-> 3] }

\* ------------------------------------------------------------------- state
VARIABLES
    now,        \* Date.now()
    ticks,      \* clock advances so far, at most one between two calls
    cache,      \* policyAnalysisCache: cache key -> CachedResult
    runs,       \* calls of searchPoliciesForQuestions so far
    phase,      \* "idle", or "running" while a call is in flight
    submitted,  \* the arguments of the call in flight (or of the last one)
    questions,  \* questionsToProcess of the call in flight (or of the last one)
    search,     \* per question of the call: its searchPoliciesForEvidence
    results,    \* the Map the last call returned, None while one is in flight
    finished,   \* history: cache key -> when an evaluation that missed the
                \* cache last finished
    routed,     \* history: the router's completion the last step handled and
                \* the question it was for, None after any other step
    segmenter,  \* a call of parsePolicyIntoPages on its own: its argument and,
                \* once it has returned, its value
    keyer,      \* two calls of getCacheKey on their own: their arguments and,
                \* once they have returned, their values
    merger      \* the analyze route's merge of the extracted questions on its
                \* own: the extracted list and, once merged, the list handed
                \* to searchPoliciesForQuestions

vars == <<now, ticks, cache, runs, phase, submitted, questions, search, results,
         finished, routed, segmenter, keyer, merger>>

\* The pure functions when they are not called on their own.
NoKeys == [first |-> [question |-> <<>>, policyId |-> ""],
           second |-> [question |-> <<>>, policyId |-> ""],
           keys |-> None]
NoMerge == [extracted |-> <<>>, handed |-> None]

\* The engine at rest, as the process starts.
EngineAtRest ==
    /\ now = 0
    /\ ticks = 0
    /\ cache = <<>>
    /\ runs = 0
    /\ phase = "idle"
    /\ submitted = [questions |-> <<>>, limit |-> 0]
    /\ questions = <<>>
    /\ search = <<>>
    /\ results = None
    /\ finished = <<>>
    /\ routed = None

\* One processPolicy(policy) of a search.  st: "new" (its batch has not
\* started), "call" (awaiting the completion for page `page`), "done".
\* match is what the promise resolved to.  The other fields are history:
\* calls (completions requested), sawQualifying (whether a verdict with
\* found = true and confidence > 0.6 was obtained, from the service or from
\* the cache), hitHigh (whether it was resolved from a cache entry with
\* confidence > 0.6), how it ended ("skipped", "hit", "found", "exhausted",
\* "threw" for a rejected call, "unparsed" for a completion that is not
\* JSON), whether an expired entry was under its key when it started
\* (stale), and whether an evaluation of its key that had missed the cache
\* had finished less than CACHE_TTL before it started (inWindow).
NewDoc ==
    [st |-> "new", page |-> 0, match |-> None, calls |-> 0,
     sawQualifying |-> FALSE, hitHigh |-> FALSE,
     how |-> "", stale |-> FALSE, inWindow |-> FALSE]

\* One searchPoliciesForEvidence(question).  pc: "route" (awaiting the
\* router's completion), "fetch" (awaiting the Corpus Store), "scan"
\* (awaiting the batch at offset off), "done".  Two fields are history:
\* overtaken (a document resolved to a match while a document placed before
\* it in the same batch was still being evaluated) and sawHigh (some
\* document's evaluation obtained a verdict with confidence > 0.6).
NewSearch ==
    [pc |-> "route", cats |-> <<>>, policies |-> <<>>, off |-> 0,
     docs |-> <<>>, result |-> None, overtaken |-> FALSE, sawHigh |-> FALSE]

\* ----------------------------------------------------------- Evidence Cache
Lookup(c, key) == IF key \in DOMAIN c THEN Some(c[key]) ELSE None

\* Faulty variant of Put: an entry that is there is kept.
PutKeepsFirst(c, key, entry) ==
    [k \in DOMAIN c \cup {key} |-> IF k \in DOMAIN c THEN c[k] ELSE entry]

Put(c, key, entry) ==
    [k \in DOMAIN c \cup {key} |-> IF k = key THEN entry ELSE c[k]]

\* (Date.now() - cached.timestamp) < CACHE_TTL
CacheFresh(cached, t) == (t - cached.timestamp) < CACHE_TTL

\* Faulty variant of CachedQualifies: every fresh entry counts as a match.
CachedQualifiesAnyEntry(cached) == TRUE

\* cached.found && cached.confidence && cached.confidence > 0.6
CachedQualifies(cached) ==
    cached.found /\ cached.confidence # 0 /\ cached.confidence > CONFIDENCE_THRESHOLD

\* Faulty variants of Qualifies: the found flag is not looked at; the
\* threshold itself qualifies.
QualifiesIgnoresFound(result) == result.confidence > CONFIDENCE_THRESHOLD
QualifiesAtLeast(result) == result.found /\ result.confidence >= CONFIDENCE_THRESHOLD

\* result.found && result.confidence > 0.6
Qualifies(result) == result.found /\ result.confidence > CONFIDENCE_THRESHOLD

\* policyAnalysisCache.set(cacheKey, { found: false, timestamp: Date.now() })
NegativeResult(t) ==
    [found |-> FALSE, excerpt |-> "", confidence |-> 0, pageNumber |-> "",
     timestamp |-> t]

\* Faulty variant of PositiveResult: the page is not recorded.
PositiveResultNoPage(result, pageNumber, t) ==
    [found |-> TRUE, excerpt |-> result.excerpt, confidence |-> result.confidence,
     pageNumber |-> "", timestamp |-> t]

\* const cachedResult = { found: true, excerpt, confidence, pageNumber, timestamp }
PositiveResult(result, pageNumber, t) ==
    [found |-> TRUE, excerpt |-> result.excerpt, confidence |-> result.confidence,
     pageNumber |-> pageNumber, timestamp |-> t]

\* History: what kind of verdict v (a parsed completion or a cache entry) is.
HighConfidence(v) == v.confidence > CONFIDENCE_THRESHOLD
QualifyingVerdict(v) == v.found = TRUE /\ v.confidence > CONFIDENCE_THRESHOLD
Saw(d, v) == [d EXCEPT !.sawQualifying = d.sawQualifying \/ QualifyingVerdict(v)]

\* Faulty variant of StartDoc: only a document without content is skipped,
\* a short one is evaluated.
StartDocAnyLength(env, p) ==
    LET doc == Corpus[p]
        key == getCacheKey(env.question, doc.id)
        cached == Lookup(env.cache, key)
    IN IF contentLength(doc.content) = 0
       THEN [NewDoc EXCEPT !.st = "done", !.how = "skipped"]
       ELSE IF IsSome(cached) /\ CacheFresh(Get(cached), env.now)
       THEN [Saw(NewDoc, Get(cached)) EXCEPT
                !.st = "done", !.how = "hit",
                !.hitHigh = HighConfidence(Get(cached)),
                !.match = IF CachedQualifies(Get(cached))
                          THEN Some([policy |-> p, result |-> Get(cached)])
                          ELSE None,
                !.inWindow = key \in DOMAIN env.finished
                             /\ env.now - env.finished[key] < CACHE_TTL]
       ELSE [NewDoc EXCEPT
                !.st = "call", !.page = 1, !.calls = 1,
                !.stale = IsSome(cached),
                !.inWindow = key \in DOMAIN env.finished
                             /\ env.now - env.finished[key] < CACHE_TTL]

\* --------------------------------------------------------- Document Matcher
\* processPolicy up to its first await: a document without content or
\* shorter than 100 characters resolves to null at once, a fresh cache
\* entry resolves to the cached match or null at once, and otherwise the
\* completion for the first page is requested.
StartDoc(env, p) ==
    LET doc == Corpus[p]
        key == getCacheKey(env.question, doc.id)
        cached == Lookup(env.cache, key)
    IN IF contentLength(doc.content) = 0
          \/ contentLength(doc.content) < MIN_CONTENT_LENGTH
       THEN [NewDoc EXCEPT !.st = "done", !.how = "skipped"]
       ELSE IF IsSome(cached) /\ CacheFresh(Get(cached), env.now)
       THEN [Saw(NewDoc, Get(cached)) EXCEPT
                !.st = "done", !.how = "hit",
                !.hitHigh = HighConfidence(Get(cached)),
                !.match = IF CachedQualifies(Get(cached))
                          THEN Some([policy |-> p, result |-> Get(cached)])
                          ELSE None,
                !.inWindow = key \in DOMAIN env.finished
                             /\ env.now - env.finished[key] < CACHE_TTL]
       ELSE [NewDoc EXCEPT
                !.st = "call", !.page = 1, !.calls = 1,
                !.stale = IsSome(cached),
                !.inWindow = key \in DOMAIN env.finished
                             /\ env.now - env.finished[key] < CACHE_TTL]

\* Faulty variant of NextPage: nothing is cached after the last page.
NextPageNoWrite(p, d, t) ==
    IF d.page < Len(parsePolicyIntoPages(Corpus[p].content))
    THEN [doc |-> [d EXCEPT !.page = d.page + 1, !.calls = d.calls + 1],
          write |-> None]
    ELSE [doc |-> [d EXCEPT !.st = "done", !.how = "exhausted"],
          write |-> None]

\* Faulty variant of NextPage: after the last page the loop starts again
\* from the first page.
NextPageAgain(p, d, t) ==
    IF d.page < Len(parsePolicyIntoPages(Corpus[p].content))
    THEN [doc |-> [d EXCEPT !.page = d.page + 1, !.calls = d.calls + 1],
          write |-> None]
    ELSE [doc |-> [d EXCEPT !.page = 1, !.calls = 1], write |-> None]

\* The end of one iteration of `for (const page of pageChunks)` without a
\* match: the next page's completion is requested, or, after the last page,
\* the negative result is cached and the promise resolves to null.
NextPage(p, d, t) ==
    IF d.page < Len(parsePolicyIntoPages(Corpus[p].content))
    THEN [doc |-> [d EXCEPT !.page = d.page + 1, !.calls = d.calls + 1],
          write |-> None]
    ELSE [doc |-> [d EXCEPT !.st = "done", !.how = "exhausted"],
          write |-> Some(NegativeResult(t))]

\* processPolicy from the arrival of a page's completion to its next await
\* or its end.  A rejected call and a completion that is not JSON both land
\* in `catch (e)`, which resolves the whole document to null.
OnCompletion(p, d, resp, t) ==
    CASE resp.kind \in {"throw", "malformed"} ->
            [doc |-> [d EXCEPT !.st = "done",
                               !.how = IF resp.kind = "throw" THEN "threw"
                                                              ELSE "unparsed"],
             write |-> None]
      [] resp.kind = "nocontent" -> NextPage(p, d, t)
      [] OTHER ->
            LET d1 == Saw(d, resp)
                pageNumber == parsePolicyIntoPages(Corpus[p].content)[d.page].pageNumber
                cachedResult == PositiveResult(resp, pageNumber, t)
            IN IF Qualifies(resp)
               THEN [doc |-> [d1 EXCEPT !.st = "done", !.how = "found",
                                        !.match = Some([policy |-> p,
                                                        result |-> cachedResult])],
                     write |-> Some(cachedResult)]
               ELSE NextPage(p, d1, t)

\* ----------------------------------------------------------- Corpus Scanner
UnderReview == [status |-> "under-review", evidence |-> None]
NotMet == [status |-> "not-met", evidence |-> None]

\* Faulty variant of Met: the page of the match is not reported.
MetVarious(match) ==
    [status |-> "met",
     evidence |-> Some(
        [policyName |-> Corpus[match.policy].policy_name,
         policyNumber |-> Corpus[match.policy].policy_number,
         page |-> <<"Various">>,
         excerpt |-> IF match.result.excerpt # ""
                     THEN match.result.excerpt
                     ELSE "Evidence found in policy document",
         confidence |-> match.result.confidence,
         category |-> Corpus[match.policy].policy_category])]

\* return { status: 'met', evidence: { ... } } for a match of processPolicy
Met(match) ==
    [status |-> "met",
     evidence |-> Some(
        [policyName |-> Corpus[match.policy].policy_name,
         policyNumber |-> Corpus[match.policy].policy_number,
         page |-> IF match.result.pageNumber # ""
                  THEN <<"Page ", match.result.pageNumber>>
                  ELSE <<"Various">>,
         excerpt |-> IF match.result.excerpt # ""
                     THEN match.result.excerpt
                     ELSE "Evidence found in policy document",
         confidence |-> match.result.confidence,
         category |-> Corpus[match.policy].policy_category])]

\* Faulty variant of EmptyCandidates: an empty list falls through to the
\* end of the scan.
EmptyCandidatesNotMet == NotMet

\* if (policies.length === 0) return { status: 'under-review' }
EmptyCandidates == UnderReview

\* Faulty variant of BatchOf: every remaining document is in the batch.
BatchOfAll(n, off) == (off + 1)..n

\* policies.slice(i, i + batchSize), as positions in the candidate list
BatchOf(n, off) == (off + 1)..Min(off + batchSize, n)

\* Faulty variants of ScanBatch: only the first result of the batch is
\* looked at; the loop does not stop at the first match and keeps the last.
ScanBatchFirstOnly(ds, off) ==
    IF off + 1 <= Len(ds) /\ IsSome(ds[off + 1].match) THEN off + 1 ELSE 0
ScanBatchLast(ds, off) ==
    LET hits == {j \in BatchOf(Len(ds), off) : IsSome(ds[j].match)}
    IN IF hits = {} THEN 0 ELSE CHOOSE j \in hits : \A k \in hits : j >= k

\* `for (const match of batchResults) if (match) ...`: the position of the
\* first match of the batch in document order, 0 when there is none.
ScanBatch(ds, off) ==
    LET hits == {j \in BatchOf(Len(ds), off) : IsSome(ds[j].match)}
    IN IF hits = {} THEN 0 ELSE CHOOSE j \in hits : \A k \in hits : j <= k

\* Faulty variant of HasNextBatch: the loop ends after its first batch.
HasNextBatchNever(n, off) == FALSE

\* `for (let i = 0; i < policies.length; i += batchSize)`: after the batch
\* at offset off, is there another one?
HasNextBatch(n, off) == off + batchSize < n

\* The scanner from the start of the batch at offset off (Advance) and from
\* the resolution of that batch's Promise.all (Resolve), up to the next
\* await or the return.  env holds the question and the cache, clock and
\* history the step reads.
RECURSIVE Advance(_, _, _, _)
RECURSIVE Resolve(_, _, _, _)

\* Faulty variant of Resolve: no early exit, every batch is evaluated and
\* the first match of the whole list is reported at the end.
ResolveAllBatches(env, pols, ds, off) ==
    IF HasNextBatch(Len(pols), off)
    THEN Advance(env, pols, ds, off + batchSize)
    ELSE IF \E j \in 1..Len(ds) : IsSome(ds[j].match)
    THEN [docs |-> ds, off |-> off,
          result |-> Some(Met(Get(ds[CHOOSE j \in 1..Len(ds) :
                                        /\ IsSome(ds[j].match)
                                        /\ \A k \in 1..(j - 1) : ~IsSome(ds[k].match)].match)))]
    ELSE [docs |-> ds, off |-> off, result |-> Some(NotMet)]

\* The resolution of a batch's Promise.all: the results are scanned in
\* document order, the first match ends the search, otherwise the next batch
\* starts or, after the last one, the search ends 'not-met'.
Resolve(env, pols, ds, off) ==
    LET m == ScanBatch(ds, off)
    IN IF m # 0
       THEN [docs |-> ds, off |-> off, result |-> Some(Met(Get(ds[m].match)))]
       ELSE IF HasNextBatch(Len(pols), off)
       THEN Advance(env, pols, ds, off + batchSize)
       ELSE [docs |-> ds, off |-> off, result |-> Some(NotMet)]

\* Faulty variant of Advance: the search returns as soon as a document of
\* the batch is answered from the cache, without awaiting the batch.
AdvanceEager(env, pols, ds, off) ==
    LET batch == BatchOf(Len(pols), off)
        ds1 == [j \in 1..Len(ds) |->
                   IF j \in batch THEN StartDoc(env, pols[j]) ELSE ds[j]]
    IN IF \/ \A j \in batch : ds1[j].st = "done"
          \/ \E j \in batch : IsSome(ds1[j].match)
       THEN Resolve(env, pols, ds1, off)
       ELSE [docs |-> ds1, off |-> off, result |-> None]

\* The start of one batch: `await Promise.all(batch.map(processPolicy))`
\* runs every processPolicy of the batch up to its first await.
Advance(env, pols, ds, off) ==
    LET batch == BatchOf(Len(pols), off)
        ds1 == [j \in 1..Len(ds) |->
                   IF j \in batch THEN StartDoc(env, pols[j]) ELSE ds[j]]
    IN IF \A j \in batch : ds1[j].st = "done"
       THEN Resolve(env, pols, ds1, off)
       ELSE [docs |-> ds1, off |-> off, result |-> None]

\* History: a document of ds was resolved from a cache entry whose
\* confidence is above 0.6.
HitHigh(ds) == \E j \in 1..Len(ds) : ds[j].hitHigh

\* -------------------------------------------------------- Batch Coordinator
\* `for (const { questionNumber, result } of searchResults)
\*     results.set(questionNumber, result)`
ResultMap(qs, ss) ==
    [n \in {qs[i].number : i \in 1..Len(qs)} |->
        LET last == CHOOSE i \in 1..Len(qs) :
                        /\ qs[i].number = n
                        /\ \A k \in 1..Len(qs) : qs[k].number = n => k <= i
        IN Get(ss[last].result)]

\* The search of question i moves to s1.  When that ends the last search in
\* flight, Promise.all(searchPromises) resolves and the call returns the map.
Settle(i, s1) ==
    LET ss == [search EXCEPT ![i] = s1]
    IN /\ search' = ss
       /\ IF \A k \in 1..Len(ss) : ss[k].pc = "done"
          THEN /\ phase' = "idle"
               /\ results' = Some(ResultMap(questions, ss))
          ELSE /\ phase' = phase
               /\ results' = results

\* ----------------------------------------------------------------- actions
Init ==
    /\ now = 0
    /\ ticks = 0
    /\ cache = <<>>
    /\ runs = 0
    /\ phase = "idle"
    /\ submitted = [questions |-> <<>>, limit |-> 0]
    /\ questions = <<>>
    /\ search = <<>>
    /\ results = None
    /\ finished = <<>>
    /\ routed = None
    /\ segmenter = [content |-> <<>>, chunks |-> None]
    /\ keyer = NoKeys
    /\ merger = NoMerge

\* Time passes between two calls of searchPoliciesForQuestions: one
\* millisecond less than the cache lifetime, or exactly the cache lifetime.
\* Within one call the clock is taken to stand still: a call lasts seconds,
\* an entry an hour.
ClockSteps == {CACHE_TTL - 1, CACHE_TTL}

Tick ==
    /\ phase = "idle"
    /\ ticks < runs
    /\ runs < MaxRuns
    /\ \E d \in ClockSteps : now' = now + d
    /\ ticks' = ticks + 1
    /\ routed' = None
    /\ UNCHANGED <<segmenter, keyer, merger, cache, runs, phase, submitted, questions, search, results, finished>>

\* Faulty variant of questionsToProcess: the limit is not applied.
questionsToProcessAll(qs, maxQuestionsToProcess) == qs

\* const questionsToProcess = questions.slice(0, maxQuestionsToProcess)
questionsToProcess(qs, maxQuestionsToProcess) ==
    SubSeq(qs, 1, Min(maxQuestionsToProcess, Len(qs)))

\* searchPoliciesForQuestions(questions, limit) up to its await: the first
\* `limit` questions start their searches, each up to the router's call.
Submit(subs) ==
    /\ phase = "idle"
    /\ \E sub \in subs :
          LET qs == questionsToProcess(sub.questions, sub.limit)
          IN /\ submitted' = sub
             /\ questions' = qs
             /\ search' = [i \in 1..Len(qs) |-> NewSearch]
    /\ phase' = "running"
    /\ results' = None
    /\ runs' = runs + 1
    /\ routed' = None
    /\ UNCHANGED <<segmenter, keyer, merger, now, ticks, cache, finished>>

\* The router's completion arrives; the Corpus Store query is sent.
RouteReturn(i) ==
    /\ phase = "running"
    /\ search[i].pc = "route"
    /\ \E resp \in RouterResponses :
          /\ search' = [search EXCEPT ![i].pc = "fetch",
                                      ![i].cats = selectRelevantCategories(resp)]
          /\ routed' = Some([slot |-> i, resp |-> resp])
    /\ UNCHANGED <<segmenter, keyer, merger, now, ticks, cache, runs, phase, submitted, questions, results, finished>>

\* The Corpus Store answers (or fails); the scanner runs to its next await.
FetchReturn(i) ==
    /\ phase = "running"
    /\ search[i].pc = "fetch"
    /\ \E readOk \in BOOLEAN :
       \E pols \in {getAllPolicyDocuments(search[i].cats, readOk)} :
          IF Len(pols) = 0
          THEN Settle(i, [search[i] EXCEPT !.pc = "done",
                                           !.result = Some(EmptyCandidates)])
          ELSE LET env == [question |-> questions[i].text, cache |-> cache,
                           now |-> now, finished |-> finished]
               IN \E r \in {Advance(env, pols, [j \in 1..Len(pols) |-> NewDoc], 0)} :
                     Settle(i, [search[i] EXCEPT
                                   !.policies = pols, !.docs = r.docs, !.off = r.off,
                                   !.result = r.result,
                                   !.sawHigh = HitHigh(r.docs),
                                   !.pc = IF IsSome(r.result) THEN "done" ELSE "scan"])
    /\ routed' = None
    /\ UNCHANGED <<segmenter, keyer, merger, now, ticks, cache, runs, submitted, questions, finished>>

\* The completion for the page that document j of search i waits for
\* arrives; processPolicy runs on, and with it the scanner when that
\* completes the batch.
InferReturn(i, j) ==
    /\ phase = "running"
    /\ search[i].pc = "scan"
    /\ j \in 1..Len(search[i].docs)
    /\ search[i].docs[j].st = "call"
    /\ \E resp \in MatcherResponses :
       \E o \in {OnCompletion(search[i].policies[j], search[i].docs[j], resp, now)} :
       \E s \in {search[i]} :
       \E key \in {getCacheKey(questions[i].text, Corpus[s.policies[j]].id)} :
       \E ds1 \in {[s.docs EXCEPT ![j] = o.doc]} :
       \E overtakes \in {/\ IsSome(o.doc.match)
                          /\ \E k \in BatchOf(Len(ds1), s.off) :
                                k < j /\ s.docs[k].st = "call"} :
       \E cache1 \in {IF IsSome(o.write) THEN Put(cache, key, Get(o.write)) ELSE cache} :
       \E finished1 \in {IF o.doc.st = "done" THEN Put(finished, key, now) ELSE finished} :
       \E env \in {[question |-> questions[i].text, cache |-> cache1,
                      now |-> now, finished |-> finished1]} :
       \E r \in {IF \A k \in BatchOf(Len(ds1), s.off) : ds1[k].st = "done"
                   THEN Resolve(env, s.policies, ds1, s.off)
                   ELSE [docs |-> ds1, off |-> s.off, result |-> None]} :
          /\ cache' = cache1
          /\ finished' = finished1
          /\ Settle(i, [s EXCEPT !.docs = r.docs, !.off = r.off,
                                 !.result = r.result,
                                 !.overtaken = s.overtaken \/ overtakes,
                                 !.sawHigh = \/ s.sawHigh
                                             \/ resp.kind = "json" /\ HighConfidence(resp)
                                             \/ HitHigh(r.docs),
                                 !.pc = IF IsSome(r.result) THEN "done" ELSE "scan"])
    /\ routed' = None
    /\ UNCHANGED <<segmenter, keyer, merger, now, ticks, runs, submitted, questions>>

\* One question per call, call after call, the clock moving in between.
SubmitOne == runs < MaxRuns /\ Submit(Submissions)

Next ==
    \/ Tick
    \/ SubmitOne
    \/ \E i \in 1..Len(search) : RouteReturn(i)
    \/ \E i \in 1..Len(search) : FetchReturn(i)
    \/ \E i \in 1..Len(search) : \E j \in 1..Len(Corpus) : InferReturn(i, j)

Spec == Init /\ [][Next]_vars

\* Every Inference Service call and every Corpus Store read that is awaited
\* eventually returns or fails: the completion a search waits for arrives.
CallsReturn ==
    /\ WF_vars(\E i \in 1..Len(search) : RouteReturn(i))
    /\ WF_vars(\E i \in 1..Len(search) : FetchReturn(i))
    /\ WF_vars(\E i \in 1..Len(search) : \E j \in 1..Len(Corpus) : InferReturn(i, j))

\* One call of searchPoliciesForQuestions whose awaited completions arrive.
SubmitLive == runs = 0 /\ Submit(Submissions)

NextLive ==
    \/ SubmitLive
    \/ \E i \in 1..Len(search) : RouteReturn(i)
    \/ \E i \in 1..Len(search) : FetchReturn(i)
    \/ \E i \in 1..Len(search) : \E j \in 1..Len(Corpus) : InferReturn(i, j)

SpecLive == Init /\ [][NextLive]_vars /\ CallsReturn

\* One call with two questions searched concurrently.
SubmitBatch == runs = 0 /\ Submit(BatchSubmissions)

NextBatch ==
    \/ SubmitBatch
    \/ \E i \in 1..Len(search) : RouteReturn(i)
    \/ \E i \in 1..Len(search) : FetchReturn(i)
    \/ \E i \in 1..Len(search) : \E j \in 1..Len(Corpus) : InferReturn(i, j)

SpecBatch == Init /\ [][NextBatch]_vars

\* parsePolicyIntoPages on its own: called with one of Contents, it returns.
InitPages ==
    /\ now = 0
    /\ ticks = 0
    /\ cache = <<>>
    /\ runs = 0
    /\ phase = "idle"
    /\ submitted = [questions |-> <<>>, limit |-> 0]
    /\ questions = <<>>
    /\ search = <<>>
    /\ results = None
    /\ finished = <<>>
    /\ routed = None
    /\ \E content \in Contents : segmenter = [content |-> content, chunks |-> None]
    /\ keyer = NoKeys
    /\ merger = NoMerge

Segment ==
    /\ segmenter.chunks = None
    /\ segmenter' = [segmenter EXCEPT
                        !.chunks = Some(parsePolicyIntoPages(segmenter.content))]
    /\ UNCHANGED <<now, ticks, cache, runs, phase, submitted, questions, search,
                   results, finished, routed, keyer, merger>>

NextPages == Segment

SpecPages == InitPages /\ [][NextPages]_vars

\* getCacheKey on its own.  The questions it is tried on: an optional
\* leading blank, a body of 2 or of KEY_PREFIX_LENGTH letters with the
\* first one in either case, and a tail: nothing, a blank or a letter.
Body(n, firstLetter) == [k \in 1..n |-> IF k = 1 THEN firstLetter ELSE "a"]
KeyQuestions ==
    { lead \o Body(n, c) \o tail :
        lead \in {<<>>, <<" ">>}, n \in {2, KEY_PREFIX_LENGTH},
        c \in {"a", "A"}, tail \in {<<>>, <<" ">>, <<"b">>} }

InitKey ==
    /\ EngineAtRest
    /\ segmenter = [content |-> <<>>, chunks |-> None]
    /\ merger = NoMerge
    /\ \E q1, q2 \in KeyQuestions : \E id1, id2 \in {"d1", "d2"} :
          keyer = [first |-> [question |-> q1, policyId |-> id1],
                   second |-> [question |-> q2, policyId |-> id2],
                   keys |-> None]

MakeKeys ==
    /\ keyer.first.question # <<>>
    /\ keyer.keys = None
    /\ keyer' = [keyer EXCEPT
                    !.keys = Some(<<getCacheKey(keyer.first.question, keyer.first.policyId),
                                    getCacheKey(keyer.second.question, keyer.second.policyId)>>)]
    /\ UNCHANGED <<now, ticks, cache, runs, phase, submitted, questions, search,
                   results, finished, routed, segmenter, merger>>

NextKey == MakeKeys

SpecKey == InitKey /\ [][NextKey]_vars

\* ------------------------------------------------------ analyze route: merge
\* The entries of questionMap in insertion order; a Map keeps the position
\* of a key that is set again.
\* Faulty variant of questionMapStep: on equal length the later text wins.
questionMapStepKeepsLast(entries, q) ==
    IF \A k \in 1..Len(entries) : entries[k].number # q.number
    THEN Append(entries, [number |-> q.number, text |-> q.text, length |-> Len(q.text)])
    ELSE [k \in 1..Len(entries) |->
             IF entries[k].number = q.number /\ Len(q.text) >= entries[k].length
             THEN [number |-> q.number, text |-> q.text, length |-> Len(q.text)]
             ELSE entries[k]]

\* One iteration of `for (const q of allExtractedQuestions)`: a number seen
\* for the first time is set; a number already there is set again only if
\* q.text.length > existing.length.
questionMapStep(entries, q) ==
    IF \A k \in 1..Len(entries) : entries[k].number # q.number
    THEN Append(entries, [number |-> q.number, text |-> q.text, length |-> Len(q.text)])
    ELSE [k \in 1..Len(entries) |->
             IF entries[k].number = q.number /\ Len(q.text) > entries[k].length
             THEN [number |-> q.number, text |-> q.text, length |-> Len(q.text)]
             ELSE entries[k]]

RECURSIVE questionMap(_)
questionMap(qs) ==
    IF qs = <<>> THEN <<>>
    ELSE questionMapStep(questionMap(SubSeq(qs, 1, Len(qs) - 1)), qs[Len(qs)])

\* .sort((a, b) => a.number - b.number): a stable sort, by insertion.
RECURSIVE InsertByNumber(_, _)
InsertByNumber(sorted, q) ==
    IF sorted = <<>> THEN <<q>>
    ELSE IF sorted[Len(sorted)].number - q.number <= 0 THEN Append(sorted, q)
    ELSE Append(InsertByNumber(SubSeq(sorted, 1, Len(sorted) - 1), q), sorted[Len(sorted)])

RECURSIVE sortByNumber(_)
sortByNumber(qs) ==
    IF qs = <<>> THEN <<>>
    ELSE InsertByNumber(sortByNumber(SubSeq(qs, 1, Len(qs) - 1)), qs[Len(qs)])

\* Array.from(questionMap.entries()).map(...).sort(...)
extractedQuestions(allExtractedQuestions) ==
    LET entries == questionMap(allExtractedQuestions)
    IN sortByNumber([k \in 1..Len(entries) |->
                        Question(entries[k].number, entries[k].text)])

\* What the chunks' completions may hold: question numbers out of order and
\* repeated, texts of equal and of different length.
ExtractedTexts == {<<"a">>, <<"b">>, <<"a", "b">>}
ExtractedLists ==
    UNION {[1..n -> {Question(number, text) : number \in 1..3, text \in ExtractedTexts}] :
              n \in 0..MaxExtracted}

\* The analyze route on its own: the questions of all chunks are there, the
\* route merges them and, unless none is left (status 400), hands the list
\* to searchPoliciesForQuestions.
InitMerge ==
    /\ EngineAtRest
    /\ segmenter = [content |-> <<>>, chunks |-> None]
    /\ keyer = NoKeys
    /\ \E qs \in ExtractedLists : merger = [extracted |-> qs, handed |-> None]

Merge ==
    /\ merger.handed = None
    /\ extractedQuestions(merger.extracted) # <<>>
    /\ merger' = [merger EXCEPT !.handed = Some(extractedQuestions(merger.extracted))]
    /\ UNCHANGED <<now, ticks, cache, runs, phase, submitted, questions, search,
                   results, finished, routed, segmenter, keyer>>

NextMerge == Merge

SpecMerge == InitMerge /\ [][NextMerge]_vars

\* ================================================================= claims
Slots == 1..Len(search)
Returned(i) == IsSome(search[i].result)
Result(i) == Get(search[i].result)
DocsOf(i) == 1..Len(search[i].docs)
DocumentOf(i, j) == Corpus[search[i].policies[j]]
\* The documents of search i whose evaluation obtained a qualifying verdict.
QualifyingDocs(i) == {j \in DocsOf(i) : search[i].docs[j].sawQualifying}
RECURSIVE SumCalls(_)
SumCalls(ds) == IF ds = <<>> THEN 0 ELSE Head(ds).calls + SumCalls(Tail(ds))

\* C1: a returned SearchResult has status 'met' exactly when it carries
\* evidence, and evidence always comes from a verdict (fresh or cached) of
\* one candidate document with found = true and confidence > 0.6.
C1_MetIffQualifyingEvidence ==
    /\ \A i \in Slots :
          Returned(i) =>
             /\ Result(i).status = "met" <=> IsSome(Result(i).evidence)
             /\ IsSome(Result(i).evidence) =>
                   \E j \in DocsOf(i) :
                      LET d == search[i].docs[j]
                          ev == Get(Result(i).evidence)
                      IN /\ IsSome(d.match)
                         /\ d.sawQualifying
                         /\ Get(d.match).result.found = TRUE
                         /\ Get(d.match).result.confidence > CONFIDENCE_THRESHOLD
                         /\ ev.confidence = Get(d.match).result.confidence
                         /\ ev.policyNumber = DocumentOf(i, j).policy_number
    /\ IsSome(results) =>
          \A n \in DOMAIN Get(results) :
             /\ Get(results)[n].status = "met" <=> IsSome(Get(results)[n].evidence)
             /\ IsSome(Get(results)[n].evidence) =>
                   Get(Get(results)[n].evidence).confidence > CONFIDENCE_THRESHOLD

\* C1 happens: a call returned 'met' with evidence read from the cache.
C1_Witness ==
    /\ IsSome(results)
    /\ \E i \in Slots :
          /\ Result(i).status = "met"
          /\ Get(results)[questions[i].number] = Result(i)
          /\ \E j \in DocsOf(i) :
                /\ search[i].docs[j].how = "hit"
                /\ IsSome(search[i].docs[j].match)
                /\ Get(Result(i).evidence).policyNumber = DocumentOf(i, j).policy_number

\* C2 as stated: whenever the evaluation of some candidate document obtained
\* a verdict with confidence > 0.6, the search returns 'met'.
C2_HighConfidenceMet ==
    \A i \in Slots :
        (Returned(i) /\ search[i].sawHigh) => Result(i).status = "met"

\* C2 as amended: whenever the evaluation of some candidate document
\* obtained, on some page, a verdict with found = true and confidence > 0.6,
\* the search returns 'met'.
C2_QualifyingVerdictMet ==
    \A i \in Slots :
        (Returned(i) /\ QualifyingDocs(i) # {}) => Result(i).status = "met"

\* C2 happens: 'met' from a verdict found on the second page of the second
\* document of the list.
C2_Witness ==
    \E i \in Slots :
        /\ Returned(i)
        /\ Result(i).status = "met"
        /\ QualifyingDocs(i) = {2}
        /\ search[i].docs[2].how = "found"
        /\ search[i].docs[1].how = "exhausted"

\* C3: a search over a non-empty candidate list in which no document's
\* evaluation obtained a qualifying verdict (every verdict is 'not found'
\* or has confidence <= 0.6) returns 'not-met' with no evidence.
C3_NoQualifyingVerdictNotMet ==
    \A i \in Slots :
        ( /\ Returned(i)
          /\ Len(search[i].policies) > 0
          /\ QualifyingDocs(i) = {} )
        => Result(i) = [status |-> "not-met", evidence |-> None]

\* C3 happens: 'not-met' after every batch of the whole corpus, two
\* pages of the first document included.
C3_Witness ==
    \E i \in Slots :
        /\ Returned(i)
        /\ Len(search[i].policies) = Len(Corpus)
        /\ QualifyingDocs(i) = {}
        /\ \A j \in 1..3 : search[i].docs[j].how = "exhausted"
        /\ Result(i).status = "not-met"

\* C4: when the fetched candidate list is empty, the search returns
\* 'under-review' with no evidence and no completion is requested for any
\* document.
C4_EmptyCandidatesUnderReview ==
    \A i \in Slots :
        (search[i].pc \in {"scan", "done"} /\ Len(search[i].policies) = 0)
        => /\ Returned(i)
           /\ Result(i) = [status |-> "under-review", evidence |-> None]
           /\ SumCalls(search[i].docs) = 0

\* C4 happens: the Corpus Store read failed for the fallback categories,
\* which do have documents.
C4_Witness ==
    \E i \in Slots :
        /\ search[i].pc = "done"
        /\ search[i].cats = FallbackCategories
        /\ Len(search[i].policies) = 0
        /\ Result(i).status = "under-review"

C7_EarliestQualifyingReported ==
    \A i \in Slots :
        (Returned(i) /\ Result(i).status = "met")
        => /\ QualifyingDocs(i) # {}
           /\ LET first == CHOOSE j \in QualifyingDocs(i) :
                              \A k \in QualifyingDocs(i) : j <= k
              IN /\ Get(Result(i).evidence).policyNumber
                       = DocumentOf(i, first).policy_number
                 /\ Get(Result(i).evidence).policyName
                       = DocumentOf(i, first).policy_name

\* C7 happens: two documents of one batch qualify, the later-placed one
\* completed first, and the earlier-placed one is reported.
C7_Witness ==
    \E i \in Slots :
        /\ Returned(i)
        /\ Result(i).status = "met"
        /\ Cardinality(QualifyingDocs(i)) >= 2
        /\ search[i].overtaken
        /\ Get(Result(i).evidence).policyNumber = DocumentOf(i, 1).policy_number

\* The search of question i attempted at least one document and every
\* evaluation it attempted ended in a rejected Inference Service call.
BackendFailed(i) ==
    /\ Len(search[i].policies) > 0
    /\ \E j \in DocsOf(i) : search[i].docs[j].how = "threw"
    /\ \A j \in DocsOf(i) : search[i].docs[j].how \in {"threw", "skipped"}

KeyOf(i, j) == getCacheKey(questions[i].text, DocumentOf(i, j).id)

\* C6: a search in which every attempted document evaluation ended in a
\* rejected Inference Service call is reported as 'under-review', never as
\* 'not-met'.
C6_BackendErrorUnderReview ==
    \A i \in Slots :
        (Returned(i) /\ BackendFailed(i)) => Result(i).status = "under-review"

\* C8: an evaluation of a (question prefix, document) pair that starts less
\* than CACHE_TTL after an earlier evaluation of the pair finished requests
\* at most one completion.
C8_SecondEvaluationAtMostOneCall ==
    \A i \in Slots : \A j \in DocsOf(i) :
        search[i].docs[j].inWindow => search[i].docs[j].calls <= 1

\* C9: an evaluation that starts on an entry at least CACHE_TTL old requests
\* a fresh completion and, when it ends without a rejected call, has
\* overwritten the entry with its outcome.
C9_StaleEntryOverwritten ==
    [][ \A i \in Slots : \A j \in DocsOf(i) :
          ( /\ search[i].docs[j].st = "call"
            /\ search[i].docs[j].stale
            /\ Len(search') = Len(search)
            /\ Len(search'[i].docs) = Len(search[i].docs)
            /\ search'[i].docs[j].st = "done"
            /\ search'[i].docs[j].how # "threw" )
          => /\ search'[i].docs[j].calls >= 1
             /\ KeyOf(i, j) \in DOMAIN cache'
             /\ cache'[KeyOf(i, j)].timestamp = now' ]_vars

\* C10: the map a call of searchPoliciesForQuestions returns has one entry
\* per question searched; a question whose search failed on the backend has
\* 'under-review', and every other question has the result of its own
\* search.
C10_FailureIsolated ==
    IsSome(results) =>
        /\ DOMAIN Get(results) = {questions[i].number : i \in Slots}
        /\ \A i \in Slots :
              Get(results)[questions[i].number]
                 = IF BackendFailed(i) THEN UnderReview ELSE Result(i)

\* C11: the map a call returns has exactly the numbers of the first
\* min(limit, length) submitted questions as its keys, each mapped to the
\* result of the search of that question's text; no later question is
\* searched.
C11_FirstLimitQuestionsSearched ==
    LET n == Min(submitted.limit, Len(submitted.questions))
    IN /\ phase = "running" => Len(search) = n
       /\ IsSome(results) =>
             /\ Len(search) = n
             /\ DOMAIN Get(results) = {submitted.questions[k].number : k \in 1..n}
             /\ \A k \in 1..n :
                   /\ questions[k] = submitted.questions[k]
                   /\ Get(results)[submitted.questions[k].number] = Result(k)

\* C11 happens: a call with two questions and limit 1 returned a map with
\* the first question's number only.
C11_Witness ==
    /\ IsSome(results)
    /\ Len(submitted.questions) = 2
    /\ submitted.limit = 1
    /\ DOMAIN Get(results) = {submitted.questions[1].number}
    /\ Len(search[1].docs) > 0

\* The router's completion resp is a failure of the routing: the call was
\* rejected, it has no content, the content is not JSON, or the JSON is not
\* a non-empty array.
RoutingFailure(resp) ==
    \/ resp.kind \in {"throw", "nocontent", "malformed"}
    \/ resp.kind = "json" /\ (~resp.isArray \/ resp.tags = <<>>)

\* C12: after a router completion that is a routing failure the search is
\* not ended: it holds the default categories GG, HH, MA and awaits the
\* Corpus Store read; and the candidate list of every search is the
\* store's answer for the categories the search holds.
C12_RoutingFailureFallsBack ==
    /\ IsSome(routed) =>
          LET i == Get(routed).slot
          IN RoutingFailure(Get(routed).resp) =>
                /\ search[i].cats = <<"GG", "HH", "MA">>
                /\ search[i].pc = "fetch"
                /\ ~Returned(i)
                /\ phase = "running"
    /\ \A i \in Slots :
          Len(search[i].policies) > 0 =>
             search[i].policies = getAllPolicyDocuments(search[i].cats, TRUE)

\* C12 happens: in a second call the router's call was rejected and the
\* search awaits the documents of the default categories.
C12_Witness ==
    /\ IsSome(routed)
    /\ Get(routed).resp.kind = "throw"
    /\ search[Get(routed).slot].cats = <<"GG", "HH", "MA">>
    /\ search[Get(routed).slot].pc = "fetch"
    /\ cache # <<>>

\* C13: the categories a search holds once the router has answered are
\* between 1 and 3 tags, each one of the ten category codes.
C13_OneToThreeKnownTags ==
    \A i \in Slots :
        search[i].pc # "route" =>
           /\ Len(search[i].cats) \in 1..3
           /\ \A k \in 1..Len(search[i].cats) :
                 search[i].cats[k] \in CATEGORY_DESCRIPTIONS

PagesOf(i, j) == parsePolicyIntoPages(DocumentOf(i, j).content)

\* C14: an evaluation is never ended by a completion that is not JSON for a
\* page that is not the document's last: the next page is evaluated.
C14_ParseFailureSkipsPageOnly ==
    \A i \in Slots : \A j \in DocsOf(i) :
        search[i].docs[j].how = "unparsed"
        => search[i].docs[j].page = Len(PagesOf(i, j))

\* C15: an evaluation that missed the cache and ended with a qualifying
\* page or with all pages exhausted has left, under its key, the entry that
\* records its outcome: found = true with the excerpt, the confidence and
\* the page label, or found = false.
C15_OutcomeCached ==
    \A i \in Slots : \A j \in DocsOf(i) :
        LET d == search[i].docs[j]
            key == KeyOf(i, j)
        IN /\ d.how = "found" =>
                /\ key \in DOMAIN cache
                /\ cache[key] = Get(d.match).result
                /\ cache[key].found = TRUE
                /\ cache[key].pageNumber = PagesOf(i, j)[d.page].pageNumber
                /\ \E resp \in MatcherResponses :
                      /\ resp.kind = "json" /\ resp.found
                      /\ resp.confidence > CONFIDENCE_THRESHOLD
                      /\ cache[key].excerpt = resp.excerpt
                      /\ cache[key].confidence = resp.confidence
                /\ cache[key].timestamp <= now
                /\ phase = "running" => cache[key].timestamp = now
           /\ d.how = "exhausted" =>
                /\ key \in DOMAIN cache
                /\ cache[key].found = FALSE
                /\ cache[key].timestamp <= now
                /\ phase = "running" => cache[key].timestamp = now

\* C15 happens: in one search a two-page document was exhausted and the
\* next one matched, and both entries are in the cache.
C15_Witness ==
    \E i \in Slots :
        /\ Len(search[i].docs) >= 2
        /\ search[i].docs[1].how = "exhausted"
        /\ search[i].docs[1].calls = 2
        /\ search[i].docs[2].how = "found"
        /\ cache[KeyOf(i, 1)].found = FALSE
        /\ cache[KeyOf(i, 2)].found = TRUE

\* The offset of the batch that document j belongs to.
BatchStart(j) == ((j - 1) \div batchSize) * batchSize

\* C16 as stated: once the scanner evaluates documents, the Document Matcher
\* has been invoked for every document of every batch.
C16_AllBatchesConcurrent ==
    \A i \in Slots :
        search[i].pc = "scan" =>
           \A j \in DocsOf(i) : search[i].docs[j].st # "new"

\* C16 as amended: the documents of one batch are evaluated concurrently,
\* and a document of a later batch is evaluated only after every document
\* of every earlier batch has ended without a match.
C16_BatchesOneAfterAnother ==
    \A i \in Slots : \A j \in DocsOf(i) :
        search[i].docs[j].st # "new" =>
           /\ \A k \in DocsOf(i) :
                 BatchStart(k) = BatchStart(j) => search[i].docs[k].st # "new"
           /\ \A k \in DocsOf(i) :
                 BatchStart(k) < BatchStart(j) =>
                    /\ search[i].docs[k].st = "done"
                    /\ ~IsSome(search[i].docs[k].match)

\* C16 happens: the two documents of the first batch both await their
\* completion and no document of the second batch has been started.
C16_Witness ==
    \E i \in Slots :
        /\ Len(search[i].docs) = Len(Corpus)
        /\ search[i].docs[1].st = "call"
        /\ search[i].docs[2].st = "call"
        /\ search[i].docs[3].st = "new"
        /\ search[i].docs[4].st = "new"

\* C17: an evaluation that misses the cache has requested the pages 1 to
\* `page` in order, one at a time; when it ends with a qualifying page it
\* reports that page's label and has requested no later page.
C17_PagesInOrderFirstMatchWins ==
    \A i \in Slots : \A j \in DocsOf(i) :
        LET d == search[i].docs[j]
        IN /\ d.st = "call" => d.page \in 1..Len(PagesOf(i, j)) /\ d.calls = d.page
           /\ d.how \in {"found", "exhausted", "threw", "unparsed"} => d.calls = d.page
           /\ d.how = "exhausted" => d.page = Len(PagesOf(i, j))
           /\ d.how = "found" =>
                 /\ Get(d.match).result.pageNumber = PagesOf(i, j)[d.page].pageNumber
                 /\ ( /\ Returned(i)
                      /\ Result(i).status = "met"
                      /\ Get(Result(i).evidence).policyNumber
                            = DocumentOf(i, j).policy_number )
                    => Get(Result(i).evidence).page
                          = <<"Page ", PagesOf(i, j)[d.page].pageNumber>>

\* C17 happens: a two-page document matched on its first page, its second
\* page was never requested, and the result names page "1 of 2".
C17_Witness ==
    \E i \in Slots : \E j \in DocsOf(i) :
        /\ search[i].docs[j].how = "found"
        /\ search[i].docs[j].page = 1
        /\ search[i].docs[j].calls = 1
        /\ Len(PagesOf(i, j)) = 2
        /\ Returned(i)
        /\ Get(Result(i).evidence).page = <<"Page ", "1 of 2">>

\* The positions of the markers of a content, and the number of characters
\* before position k.
MarkersIn(content) == {k \in 1..Len(content) : content[k].marker}
OffsetOf(content, k) == SumLen(SubSeq(content, 1, k - 1))
RECURSIVE Concat(_)
Concat(chunks) ==
    IF chunks = <<>> THEN <<>> ELSE Head(chunks).content \o Concat(Tail(chunks))

\* C18: for a content with N >= 1 markers parsePolicyIntoPages returns N
\* chunks in marker order, the i-th labelled by the i-th marker and running
\* from that marker up to the next marker or the end of the content, so
\* that no two chunks overlap.
C18_OneChunkPerMarker ==
    LET content == segmenter.content
        N == Cardinality(MarkersIn(content))
    IN (IsSome(segmenter.chunks) /\ N >= 1) =>
          LET chunks == Get(segmenter.chunks)
              End(i) == chunks[i].startIndex + SumLen(chunks[i].content)
          IN /\ Len(chunks) = N
             /\ \A i \in 1..Len(chunks) :
                   \E k \in MarkersIn(content) :
                      /\ Cardinality({m \in MarkersIn(content) : m < k}) = i - 1
                      /\ chunks[i].pageNumber = content[k].label
                      /\ chunks[i].startIndex = OffsetOf(content, k)
                      /\ Head(chunks[i].content) = content[k]
             /\ \A i \in 1..Len(chunks) :
                   End(i) = IF i < Len(chunks) THEN chunks[i + 1].startIndex
                                               ELSE SumLen(content)
             /\ \A i, j \in 1..Len(chunks) :
                   i < j => End(i) <= chunks[j].startIndex

\* C18 happens: a content with text before, between and after two markers
\* was cut into two chunks.
C18_Witness ==
    /\ IsSome(segmenter.chunks)
    /\ segmenter.content = <<Text(7), Marker("1 of 2"), Text(7), Marker("2 of 2")>>
    /\ Len(Get(segmenter.chunks)) = 2
    /\ Get(segmenter.chunks)[2].pageNumber = "2 of 2"
    /\ Get(segmenter.chunks)[2].startIndex = 25

\* C19: the texts of the chunks parsePolicyIntoPages returns, concatenated
\* in order, are the content it was given.
C19_ChunksReconstructContent ==
    IsSome(segmenter.chunks) => Concat(Get(segmenter.chunks)) = segmenter.content

\* The excerpts that are passages of at most 250 characters of a document
\* of the corpus.
VerbatimExcerpts == {"quote"}

\* C20: the excerpt of every 'met' result is a passage of at most 250
\* characters of the matched document.
C20_ExcerptVerbatim ==
    \A i \in Slots :
        (Returned(i) /\ Result(i).status = "met")
        => Get(Result(i).evidence).excerpt \in VerbatimExcerpts

\* The labels of the pages of document j of search i.
LabelsOf(i, j) == {PagesOf(i, j)[k].pageNumber : k \in 1..Len(PagesOf(i, j))}

\* C21: the evidence of a 'met' result names one candidate document that
\* resolved to a qualifying verdict: its name, its number and its category,
\* and the page of it on which the verdict was found, also when the verdict
\* was read from the cache.
C21_EvidenceNamesMatchedDocument ==
    \A i \in Slots :
        (Returned(i) /\ Result(i).status = "met") =>
           \E j \in DocsOf(i) :
              LET d == search[i].docs[j]
                  ev == Get(Result(i).evidence)
              IN /\ d.sawQualifying
                 /\ d.how \in {"found", "hit"}
                 /\ ev.policyName = DocumentOf(i, j).policy_name
                 /\ ev.policyNumber = DocumentOf(i, j).policy_number
                 /\ ev.category = DocumentOf(i, j).policy_category
                 /\ d.how = "found" =>
                       ev.page = <<"Page ", PagesOf(i, j)[d.page].pageNumber>>
                 /\ d.how = "hit" =>
                       /\ ev.page = <<"Page ", cache[KeyOf(i, j)].pageNumber>>
                       /\ cache[KeyOf(i, j)].pageNumber \in LabelsOf(i, j)

\* C21 happens: a second call is answered from the cache with the second
\* page of the first document.
C21_Witness ==
    \E i \in Slots :
        /\ Returned(i)
        /\ Result(i).status = "met"
        /\ search[i].docs[1].how = "hit"
        /\ Get(Result(i).evidence).policyNumber = "GG.1"
        /\ Get(Result(i).evidence).category = "GG"
        /\ Get(Result(i).evidence).page = <<"Page ", "2 of 2">>

\* How two questions may differ: only after character 100, only in letter
\* case, only in blanks at the end, only in blanks at either end.
Prefix(q) == SubSeq(q, 1, Min(KEY_PREFIX_LENGTH, Len(q)))
Lower(c) == IF c = "A" THEN "a" ELSE IF c = "B" THEN "b" ELSE IF c = "Q" THEN "q" ELSE c
DifferAfterPrefix(q1, q2) == Prefix(q1) = Prefix(q2)
DifferInCase(q1, q2) ==
    Len(q1) = Len(q2) /\ \A k \in 1..Len(q1) : Lower(q1[k]) = Lower(q2[k])
DifferInTrailingBlanks(q1, q2) == trimRight(q1) = trimRight(q2)
DifferInOuterBlanks(q1, q2) == trim(q1) = trim(q2)

\* C22 as stated: two questions that differ only after character 100, only
\* in letter case or only in leading or trailing blanks have the same cache
\* key for the same document.
C22_VariantsShareKey ==
    IsSome(keyer.keys) =>
        LET q1 == keyer.first.question
            q2 == keyer.second.question
        IN ( /\ keyer.first.policyId = keyer.second.policyId
             /\ \/ DifferAfterPrefix(q1, q2)
                \/ DifferInCase(q1, q2)
                \/ DifferInOuterBlanks(q1, q2) )
           => Get(keyer.keys)[1] = Get(keyer.keys)[2]

\* C22 as amended: the same, with leading blanks allowed to differ only
\* between questions of at most 100 characters; and the keys of different
\* documents differ.
C22_VariantsWithinPrefixShareKey ==
    IsSome(keyer.keys) =>
        LET q1 == keyer.first.question
            q2 == keyer.second.question
        IN /\ ( /\ keyer.first.policyId = keyer.second.policyId
                /\ \/ DifferAfterPrefix(q1, q2)
                   \/ DifferInCase(q1, q2)
                   \/ DifferInTrailingBlanks(q1, q2)
                   \/ /\ DifferInOuterBlanks(q1, q2)
                      /\ Len(q1) <= KEY_PREFIX_LENGTH
                      /\ Len(q2) <= KEY_PREFIX_LENGTH )
              => Get(keyer.keys)[1] = Get(keyer.keys)[2]
           /\ keyer.first.policyId # keyer.second.policyId
              => Get(keyer.keys)[1] # Get(keyer.keys)[2]

\* C22 happens: a question of 100 letters and the same question in another
\* case, with a blank and one more letter after it, have the same key.
C22_Witness ==
    /\ IsSome(keyer.keys)
    /\ keyer.first.question = Body(KEY_PREFIX_LENGTH, "a")
    /\ keyer.second.question = Body(KEY_PREFIX_LENGTH, "A") \o <<"b">>
    /\ keyer.first.policyId = keyer.second.policyId
    /\ Get(keyer.keys)[1] = Get(keyer.keys)[2]

\* In this step the evaluation of document j of search i, which had missed
\* the cache, ends with a qualifying page or with its pages exhausted.
Writes(i, j) ==
    /\ search[i].docs[j].st = "call"
    /\ search'[i].docs[j].st = "done"
    /\ search'[i].docs[j].how \in {"found", "exhausted"}

\* C23: every step leaves one entry per key; an evaluation that ends by
\* writing leaves its own verdict under its key, whatever another
\* evaluation of the key had written before; and an entry changes only in
\* the step in which an evaluation of its key writes.
C23_LastWriteWins ==
    [][ Len(search') = Len(search) =>
          /\ DOMAIN cache \subseteq DOMAIN cache'
          /\ \A i \in Slots : \A j \in DocsOf(i) :
                Writes(i, j) =>
                   /\ KeyOf(i, j) \in DOMAIN cache'
                   /\ cache'[KeyOf(i, j)]
                         = IF search'[i].docs[j].how = "found"
                           THEN Get(search'[i].docs[j].match).result
                           ELSE [found |-> FALSE, excerpt |-> "", confidence |-> 0,
                                 pageNumber |-> "", timestamp |-> now]
          /\ \A k \in DOMAIN cache' :
                (k \notin DOMAIN cache \/ cache'[k] # cache[k]) =>
                   \E i \in Slots : \E j \in DocsOf(i) :
                      KeyOf(i, j) = k /\ Writes(i, j) ]_vars

\* C23 happens: two concurrent evaluations of one key both missed the
\* cache; the first to end wrote a match, the second then wrote its negative
\* verdict over it.
C23_Witness ==
    \E i1, i2 \in Slots : \E j1 \in DocsOf(i1) : \E j2 \in DocsOf(i2) :
        /\ i1 # i2
        /\ KeyOf(i1, j1) = KeyOf(i2, j2)
        /\ search[i1].docs[j1].how = "found"
        /\ search[i2].docs[j2].how = "exhausted"
        /\ cache[KeyOf(i1, j1)].found = FALSE

\* C24: a search that has returned has no document evaluation in flight, so
\* no later step of the call changes its result or its documents; and the
\* map the call returns holds, under each question's number, that one result.
C24_ResultFinal ==
    [][ (Len(search') = Len(search) /\ runs' = runs) =>
          \A i \in Slots :
             /\ Returned(i) =>
                   /\ search'[i].result = search[i].result
                   /\ search'[i].docs = search[i].docs
             /\ IsSome(search'[i].result) =>
                   \A j \in 1..Len(search'[i].docs) :
                      search'[i].docs[j].st # "call"
             /\ IsSome(results') =>
                   /\ IsSome(search'[i].result)
                   /\ Get(results')[questions'[i].number]
                         = Get(search'[i].result) ]_vars

\* C24 happens: the search of the first question had returned 'met' when the
\* router answered for the second question, whose documents were then
\* evaluated while the first result stood.
C24_Witness ==
    /\ Len(search) = 2
    /\ Returned(1)
    /\ Result(1).status = "met"
    /\ search[2].pc = "scan"
    /\ \E j \in DocsOf(2) : search[2].docs[j].st = "call" /\ search[2].docs[j].page = 2

\* C25: once a document has a match, no document of a later batch has been
\* evaluated (it has no Inference Service call and no verdict), and no step
\* of the search changes the cache entry of a document it has not started.
C25_EarlyExit ==
    [][ runs' = runs =>
          \A i \in 1..Len(search') : \A k \in 1..Len(search'[i].docs) :
             /\ (\E j \in 1..Len(search'[i].docs) :
                    /\ IsSome(search'[i].docs[j].match)
                    /\ BatchStart(j) < BatchStart(k))
                => search'[i].docs[k] = NewDoc
             /\ search'[i].docs[k] = NewDoc =>
                   LET key == getCacheKey(questions'[i].text,
                                          Corpus[search'[i].policies[k]].id)
                   IN /\ key \in DOMAIN cache' <=> key \in DOMAIN cache
                      /\ key \in DOMAIN cache => cache'[key] = cache[key] ]_vars

\* C25 happens: with the whole corpus as candidates the second document
\* matched, the search returned 'met', and the documents of the second
\* batch were never evaluated and have no cache entry.
C25_Witness ==
    \E i \in Slots :
        /\ Returned(i)
        /\ Result(i).status = "met"
        /\ Len(search[i].docs) = Len(Corpus)
        /\ search[i].docs[1].how = "exhausted"
        /\ search[i].docs[2].how = "found"
        /\ search[i].docs[3] = NewDoc
        /\ search[i].docs[4] = NewDoc
        /\ KeyOf(i, 3) \notin DOMAIN cache
        /\ KeyOf(i, 4) \notin DOMAIN cache

\* C26: when every awaited completion and Corpus Store read arrives, a call
\* of searchPoliciesForQuestions that is running eventually returns, and
\* the map it returns has a SearchResult for every processed question.
C26_CallReturns ==
    (phase = "running")
       ~> ( /\ phase = "idle"
            /\ IsSome(results)
            /\ \A i \in Slots :
                  /\ Returned(i)
                  /\ questions[i].number \in DOMAIN Get(results) )

\* C26 happens: a call has returned after a search that evaluated the whole
\* corpus, page after page, to the end of the last batch.
C26_Witness ==
    /\ phase = "idle"
    /\ IsSome(results)
    /\ \E i \in Slots :
          /\ Len(search[i].docs) = Len(Corpus)
          /\ search[i].off + batchSize >= Len(search[i].docs)
          /\ search[i].docs[1].calls = 2
          /\ questions[i].number \in DOMAIN Get(results)
          /\ Get(results)[questions[i].number].status = "not-met"

\* The content of document j of search i is missing or shorter than 100
\* characters.
TooShort(i, j) ==
    \/ contentLength(DocumentOf(i, j).content) = 0
    \/ contentLength(DocumentOf(i, j).content) < MIN_CONTENT_LENGTH

\* C27: a candidate document whose content is missing or shorter than 100
\* characters is never sent to the Inference Service, has no cache entry,
\* is never answered from the cache and never yields a match; a search whose
\* candidates are all such documents ends 'not-met'.
C27_ShortDocumentSkipped ==
    \A i \in Slots :
        /\ \A j \in DocsOf(i) :
              TooShort(i, j) =>
                 /\ search[i].docs[j].st # "call"
                 /\ search[i].docs[j].calls = 0
                 /\ search[i].docs[j].how \in {"", "skipped"}
                 /\ ~IsSome(search[i].docs[j].match)
                 /\ KeyOf(i, j) \notin DOMAIN cache
        /\ ( /\ Returned(i)
             /\ DocsOf(i) # {}
             /\ \A j \in DocsOf(i) : TooShort(i, j) )
           => Result(i) = [status |-> "not-met", evidence |-> None]

\* C27 happens: the candidates were a document of 50 characters and one
\* without content; both were skipped and the search returned 'not-met'.
C27_Witness ==
    \E i \in Slots :
        /\ Returned(i)
        /\ Len(search[i].docs) = 2
        /\ contentLength(DocumentOf(i, 1).content) = 50
        /\ contentLength(DocumentOf(i, 2).content) = 0
        /\ search[i].docs[1].how = "skipped"
        /\ search[i].docs[2].how = "skipped"
        /\ Result(i).status = "not-met"

\* C28: every cache entry with found = true has a confidence above 0.6 and
\* a page label; a document answered from a cache entry with found = true
\* has a match that carries exactly that entry, and a document answered
\* from an entry with found = false has no match.
C28_CachedMatchesQualify ==
    /\ \A k \in DOMAIN cache :
          cache[k].found =>
             /\ cache[k].confidence > CONFIDENCE_THRESHOLD
             /\ cache[k].pageNumber # ""
    /\ \A i \in Slots : \A j \in DocsOf(i) :
          search[i].docs[j].how = "hit" =>
             /\ KeyOf(i, j) \in DOMAIN cache
             /\ search[i].docs[j].calls = 0
             /\ IF cache[KeyOf(i, j)].found
                THEN search[i].docs[j].match
                        = Some([policy |-> search[i].policies[j],
                                result |-> cache[KeyOf(i, j)]])
                ELSE search[i].docs[j].match = None

\* C28 happens: in one search the first document was answered from an entry
\* with found = false and has no match, the second from an entry with
\* found = true, whose excerpt, confidence and page its match carries.
C28_Witness ==
    \E i \in Slots :
        /\ Len(search[i].docs) >= 2
        /\ search[i].docs[1].how = "hit"
        /\ ~cache[KeyOf(i, 1)].found
        /\ search[i].docs[1].match = None
        /\ search[i].docs[2].how = "hit"
        /\ cache[KeyOf(i, 2)].found
        /\ Get(search[i].docs[2].match).result.excerpt = cache[KeyOf(i, 2)].excerpt
        /\ Get(search[i].docs[2].match).result.confidence = cache[KeyOf(i, 2)].confidence
        /\ Get(search[i].docs[2].match).result.pageNumber = "1"

\* The fingerprint of a question: its first 100 characters, lower-cased,
\* trimmed.
Fingerprint(text) == trim(toLowerCase(substring(text, 0, KEY_PREFIX_LENGTH)))

\* Search i shares no cache key with another search of the call.
DisjointKeys(i) ==
    \A k \in Slots \ {i} :
        Fingerprint(questions[k].text) # Fingerprint(questions[i].text)

\* The result of search i searched alone from the empty cache, with the
\* answers its documents have received: no candidate gives 'under-review',
\* the first document with a match gives 'met', no match gives 'not-met'.
AloneResult(i) ==
    LET ds == search[i].docs
        matched == {j \in 1..Len(ds) : IsSome(ds[j].match)}
    IN IF Len(ds) = 0 THEN [status |-> "under-review", evidence |-> None]
       ELSE IF matched = {} THEN [status |-> "not-met", evidence |-> None]
       ELSE LET j == CHOOSE m \in matched : \A n \in matched : m <= n
                e == Get(ds[j].match).result
            IN [status |-> "met",
                evidence |-> Some(
                   [policyName |-> DocumentOf(i, j).policy_name,
                    policyNumber |-> DocumentOf(i, j).policy_number,
                    page |-> <<"Page ", e.pageNumber>>,
                    excerpt |-> IF e.excerpt # "" THEN e.excerpt
                                ELSE "Evidence found in policy document",
                    confidence |-> e.confidence,
                    category |-> DocumentOf(i, j).policy_category])]

\* C29: in a call that starts from the empty cache, a search that shares no
\* cache key with the other searches is never answered from the cache, the
\* entries under its keys are the ones its own evaluations wrote, and its
\* result is the one its own documents' answers give when searched alone.
C29_DisjointSearchesIndependent ==
    \A i \in Slots :
        DisjointKeys(i) =>
           /\ \A j \in DocsOf(i) :
                 /\ search[i].docs[j].how # "hit"
                 /\ KeyOf(i, j) \in DOMAIN cache
                       <=> search[i].docs[j].how \in {"found", "exhausted"}
                 /\ search[i].docs[j].how = "found"
                       => cache[KeyOf(i, j)] = Get(search[i].docs[j].match).result
                 /\ search[i].docs[j].how = "exhausted"
                       => ~cache[KeyOf(i, j)].found
           /\ Returned(i) => Result(i) = AloneResult(i)

\* C29 happens: two searches with different fingerprints ran concurrently
\* over the same documents; the first document matched for one question
\* and not for the other, and each search returned its own result.
C29_Witness ==
    /\ Len(search) = 2
    /\ DisjointKeys(1)
    /\ Returned(1)
    /\ Returned(2)
    /\ search[1].policies = search[2].policies
    /\ Len(search[1].docs) >= 2
    /\ search[1].docs[1].how = "found"
    /\ search[2].docs[1].how = "exhausted"
    /\ search[2].docs[2].how = "exhausted"
    /\ Result(1).status = "met"
    /\ Result(2).status = "not-met"
    /\ cache[KeyOf(1, 1)].found
    /\ ~cache[KeyOf(2, 1)].found

\* The position in qs of the text the merge is to keep for number n: the
\* longest one extracted for n, the first of them on equal length.
Longest(qs, n) ==
    CHOOSE k \in 1..Len(qs) :
        /\ qs[k].number = n
        /\ \A m \in 1..Len(qs) :
              qs[m].number = n =>
                 \/ Len(qs[m].text) < Len(qs[k].text)
                 \/ Len(qs[m].text) = Len(qs[k].text) /\ k <= m

\* C30: the list handed to searchPoliciesForQuestions has strictly ascending
\* question numbers, holds exactly the numbers that were extracted, and for
\* each number the longest text extracted for it, the first seen on equal
\* length.
C30_MergedQuestions ==
    IsSome(merger.handed) =>
       LET handed == Get(merger.handed)
           all == merger.extracted
       IN /\ \A a, b \in 1..Len(handed) :
                a < b => handed[a].number < handed[b].number
          /\ {handed[k].number : k \in 1..Len(handed)}
                = {all[k].number : k \in 1..Len(all)}
          /\ \A k \in 1..Len(handed) :
                handed[k].text = all[Longest(all, handed[k].number)].text

\* C30 happens: question 2 was extracted twice with texts of equal length,
\* before question 1; the list handed on has question 1 first and, for
\* question 2, the text seen first.
C30_Witness ==
    /\ merger.extracted = <<Question(2, <<"a">>), Question(2, <<"b">>),
                            Question(1, <<"a", "b">>)>>
    /\ merger.handed = Some(<<Question(1, <<"a", "b">>), Question(2, <<"a">>)>>)

====
